---- MODULE Spec2Model ----
(***************************************************************************)
(* Model of the conversational-AI orchestration core of the backend:       *)
(* app/services/ai_provider_service.py (LocalAIProvider, OpenAIProvider,   *)
(* get_ai_provider, UnifiedAIService) with app/core/ai_config.py.          *)
(*                                                                         *)
(* One request is one asynchronous task.  Every `await` on a backend is a  *)
(* suspension point: an action runs the code from one suspension point to  *)
(* the next.  Text is a sequence of one-character strings, so that prompt  *)
(* flattening is computed character by character as the code does.         *)
(***************************************************************************)
EXTENDS Integers, Sequences, FiniteSets, TLC

\* ------------------------------------------------------------------ bounds
MaxContentLen == 1      \* longest text drawn for an input or a backend reply
MaxHistory == 2         \* longest conversation_history / message list drawn
MaxOpportunities == 2   \* longest list given to filter_opportunities_by_age
NumRequests == 2        \* requests served concurrently
MaxAge == 62            \* largest age drawn
AgesBelowZero == 2      \* how many negative ages are drawn

\* --------------------------------------------------------- Python values
None == <<"None">>                  \* Python None where a str is expected
NoneList == <<[none |-> TRUE]>>     \* Python None where a list is expected
Unset == <<"Unset">>                \* a local variable not yet assigned

Alphabet == {"a"}

RECURSIVE SeqsUpTo(_, _)
SeqsUpTo(S, n) ==
    IF n = 0 THEN {<<>>}
    ELSE LET shorter == SeqsUpTo(S, n - 1)
         IN  shorter \cup {Append(s, x) : s \in {t \in shorter : Len(t) = n - 1}, x \in S}

Strs == SeqsUpTo(Alphabet, MaxContentLen)

\* `if x:` on a str-or-None value (variant: `if x is not None:`)
truthy_is_not_None(v) == v # None
truthy(v) == v # None /\ v # <<>>

\* `if xs:` on a list-or-None value
truthy_list(xs) == xs # NoneList /\ Len(xs) > 0

\* dict.get(key, default)
dict_get(d, key, default) == IF key \in DOMAIN d THEN d[key] ELSE default

\* str() as applied by an f-string field
str(v) == IF v = None THEN <<"N", "o", "n", "e">> ELSE v

\* str.join
RECURSIVE join(_, _)
join(sep, parts) ==
    IF Len(parts) = 0 THEN <<>>
    ELSE IF Len(parts) = 1 THEN parts[1]
    ELSE parts[1] \o sep \o join(sep, Tail(parts))

\* ------------------------------------------------------------ ai_config
MAX_RESPONSE_LENGTH == 500
OPENAI_TTS_VOICE == <<"n", "o", "v", "a">>
is_using_local_provider(PROVIDER) == PROVIDER = "local"

\* get_ai_provider(): the adapter variant built for the configured kind
\* (variant: the cloud adapter whatever the configuration)
get_ai_provider_always_openai(PROVIDER) == "OpenAIProvider"
get_ai_provider(PROVIDER) ==
    IF is_using_local_provider(PROVIDER) THEN "LocalAIProvider" ELSE "OpenAIProvider"

\* ------------------------------------------------------------- messages
Roles == {"system", "user", "assistant", "tool"}

\* message dicts a caller may pass: any role (also an unrecognised one),
\* a dict without "role", a dict without "content"
Messages ==
    {[role |-> r, content |-> <<"a">>] : r \in Roles}
        \cup {[role |-> "assistant", content |-> <<>>]}
        \cup {[content |-> c] : c \in Strs \ {<<>>}}
        \cup {[role |-> "user"]}

Histories == SeqsUpTo(Messages, MaxHistory)

\* LocalAIProvider._messages_to_prompt
NL == <<"\n">>
SystemLabel == <<"S", "y", "s", "t", "e", "m", ":", " ">>
UserLabel == <<"U", "s", "e", "r", ":", " ">>
AssistantLabel == <<"A", "s", "s", "i", "s", "t", "a", "n", "t", ":", " ">>
AssistantCue == <<"A", "s", "s", "i", "s", "t", "a", "n", "t", ":">>

RECURSIVE prompt_parts(_)
prompt_parts(messages) ==
    IF Len(messages) = 0 THEN <<>>
    ELSE LET msg == Head(messages)
             role == dict_get(msg, "role", "user")
             content == dict_get(msg, "content", <<>>)
             part == IF role = "system" THEN <<SystemLabel \o str(content) \o NL>>
                     ELSE IF role = "user" THEN <<UserLabel \o str(content) \o NL>>
                     ELSE IF role = "assistant" THEN <<AssistantLabel \o str(content) \o NL>>
                     ELSE <<>>
         IN  part \o prompt_parts(Tail(messages))

\* variants: the cue left out; the parts joined with the empty string
_messages_to_prompt_no_cue(messages) == join(NL, prompt_parts(messages))
_messages_to_prompt_concat(messages) ==
    join(<<>>, Append(prompt_parts(messages), AssistantCue))
_messages_to_prompt(messages) ==
    join(NL, Append(prompt_parts(messages), AssistantCue))

\* UnifiedAIService.chat, lines 272-283: the message list handed to the adapter
\* (variant: the user message appended only when it is non-empty)
chat_messages_skip_empty(user_message, conversation_history, system_prompt) ==
    LET m1 == IF truthy(system_prompt)
              THEN <<[role |-> "system", content |-> system_prompt]>>
              ELSE <<>>
        m2 == IF truthy_list(conversation_history)
              THEN m1 \o conversation_history
              ELSE m1
    IN  IF truthy(user_message)
        THEN Append(m2, [role |-> "user", content |-> user_message])
        ELSE m2
chat_messages(user_message, conversation_history, system_prompt) ==
    LET m0 == <<>>
        m1 == IF truthy(system_prompt)
              THEN Append(m0, [role |-> "system", content |-> system_prompt])
              ELSE m0
        m2 == IF truthy_list(conversation_history)
              THEN m1 \o conversation_history
              ELSE m1
    IN  Append(m2, [role |-> "user", content |-> user_message])

\* UnifiedAIService.chat, lines 272-283: the caller's conversation_history as
\* the call leaves it. `messages = []` binds a new list, the appends and the
\* extend write to that list, and the caller's list is only read
\* (variant: the user message appended to the caller's list)
caller_history_after_chat_appended(user_message, conversation_history, system_prompt) ==
    IF truthy_list(conversation_history)
    THEN Append(conversation_history, [role |-> "user", content |-> user_message])
    ELSE conversation_history
caller_history_after_chat(user_message, conversation_history, system_prompt) ==
    conversation_history

\* ------------------------------------------------------ adapter outcomes
\* what an awaited call yields: a value, or a raised exception
Ok(v) == [ok |-> TRUE, value |-> v]
Raise(type, message) == [ok |-> FALSE, exc |-> [type |-> type, message |-> message]]

\* ----------------------------------------------------- backend responses
AudioInputs == {<<"m4a">>}
AudioBytes == {<<>>, <<"w">>}
EmptyDict == [k \in {} |-> <<>>]

\* httpx.HTTPError raised by client.post (transport, timeout) or by
\* response.raise_for_status (non-success status)
HttpFailures == {"ReadTimeout", "HTTPStatusError"}
HttpErrors == {[kind |-> "HTTPError", detail |-> d] : d \in HttpFailures}

\* a 2xx reply: json is <<>> when the body is not JSON, else <<the object>>
OllamaResponses ==
    HttpErrors \cup {[kind |-> "ok", json |-> <<>>], [kind |-> "ok", json |-> <<EmptyDict>>]}
        \cup {[kind |-> "ok", json |-> <<[response |-> s]>>] : s \in Strs}
WhisperResponses ==
    HttpErrors \cup {[kind |-> "ok", json |-> <<>>], [kind |-> "ok", json |-> <<EmptyDict>>]}
        \cup {[kind |-> "ok", json |-> <<[text |-> s]>>] : s \in Strs \cup {None}}

\* str.strip(): leading and trailing whitespace removed
Whitespace == {" ", "\n", "\t"}
RECURSIVE lstrip(_)
lstrip(s) ==
    IF s # <<>> /\ Head(s) \in Whitespace THEN lstrip(Tail(s)) ELSE s
RECURSIVE rstrip(_)
rstrip(s) ==
    IF s # <<>> /\ s[Len(s)] \in Whitespace
    THEN rstrip(SubSeq(s, 1, Len(s) - 1))
    ELSE s
strip(s) == rstrip(lstrip(s))

\* tts_server.py POST /api/tts: the answers the synthesis server can give
\* to a request body {"text": t}
tts_server_text_to_speech(t) ==
    {[status |-> 500, error |-> "TTS model not loaded"]} \cup
    IF t = None
    THEN {[status |-> 500, error |-> "TTS generation failed"]}
    ELSE IF strip(t) = <<>>
    THEN {[status |-> 400, error |-> "Empty text provided"]}
    ELSE {[status |-> 500, error |-> "TTS generation failed"]}
             \cup {[status |-> 200, content |-> b] : b \in AudioBytes}

\* client.post to the synthesis server followed by raise_for_status
CoquiResponses(request) ==
    {[kind |-> "HTTPError", detail |-> "ReadTimeout"]} \cup
    {IF r.status = 200
     THEN [kind |-> "ok", content |-> r.content]
     ELSE [kind |-> "HTTPError", detail |-> "HTTPStatusError"]
        : r \in tts_server_text_to_speech(request.text)}

\* the OpenAI SDK either raises or returns an object
SdkFailures == {"APITimeoutError", "APIStatusError"}
SdkErrors == {[kind |-> "SdkError", detail |-> d] : d \in SdkFailures}
OpenAIChatResponses ==
    SdkErrors \cup {[kind |-> "ok", choices |-> <<>>]}
        \cup {[kind |-> "ok", choices |-> <<[content |-> c]>>] : c \in Strs \cup {None}}
OpenAISpeechResponses ==
    SdkErrors \cup {[kind |-> "ok", content |-> b] : b \in AudioBytes}

\* ------------------------------------------------------- LocalAIProvider
Local_generate_text_request(messages, temperature, max_tokens) ==
    [endpoint |-> "ollama/api/generate",
     prompt |-> _messages_to_prompt(messages),
     temperature |-> temperature, max_tokens |-> max_tokens, stream |-> FALSE]

\* (variant: result["response"], a reply without the field is an error)
Local_generate_text_outcome_strict(resp) ==
    IF resp.kind = "HTTPError"
    THEN Raise("Exception", <<"Ollama API error: ", resp.detail>>)
    ELSE IF Len(resp.json) = 0
    THEN Raise("JSONDecodeError", <<"Expecting value">>)
    ELSE IF "response" \notin DOMAIN resp.json[1]
    THEN Raise("KeyError", <<"response">>)
    ELSE Ok(resp.json[1].response)
Local_generate_text_outcome(resp) ==
    IF resp.kind = "HTTPError"
    THEN Raise("Exception", <<"Ollama API error: ", resp.detail>>)
    ELSE IF Len(resp.json) = 0
    THEN Raise("JSONDecodeError", <<"Expecting value">>)
    ELSE Ok(dict_get(resp.json[1], "response", <<>>))

Local_generate_speech_request(text, voice) ==
    [endpoint |-> "coqui/api/tts", text |-> text]

Local_generate_speech_outcome(resp) ==
    IF resp.kind = "HTTPError"
    THEN Raise("Exception", <<"Coqui TTS error: ", resp.detail>>)
    ELSE Ok(resp.content)

Local_transcribe_audio_request(audio_file) ==
    [endpoint |-> "whisper", audio |-> audio_file]

Local_transcribe_audio_outcome(resp) ==
    IF resp.kind = "HTTPError"
    THEN Raise(resp.detail, <<resp.detail>>)
    ELSE IF Len(resp.json) = 0
    THEN Raise("JSONDecodeError", <<"Expecting value">>)
    ELSE Ok(dict_get(resp.json[1], "text", <<>>))

\* -------------------------------------------------------- OpenAIProvider
\* (variant: the messages flattened into one user message)
OpenAI_generate_text_request_flattened(messages, temperature, max_tokens) ==
    [endpoint |-> "openai/chat.completions",
     messages |-> <<[role |-> "user", content |-> _messages_to_prompt(messages)]>>,
     temperature |-> temperature, max_tokens |-> max_tokens]
OpenAI_generate_text_request(messages, temperature, max_tokens) ==
    [endpoint |-> "openai/chat.completions",
     messages |-> messages,
     temperature |-> temperature, max_tokens |-> max_tokens]

OpenAI_generate_text_outcome(resp) ==
    IF resp.kind = "SdkError"
    THEN Raise("Exception", <<"OpenAI API error: ", resp.detail>>)
    ELSE IF Len(resp.choices) = 0
    THEN Raise("Exception", <<"OpenAI API error: ", "list index out of range">>)
    ELSE Ok(resp.choices[1].content)

OpenAI_generate_speech_request(text, voice) ==
    [endpoint |-> "openai/audio.speech",
     voice |-> IF truthy(voice) THEN voice ELSE OPENAI_TTS_VOICE,
     input |-> text]

OpenAI_generate_speech_outcome(resp) ==
    IF resp.kind = "SdkError"
    THEN Raise("Exception", <<"OpenAI TTS error: ", resp.detail>>)
    ELSE Ok(resp.content)

OpenAI_transcribe_audio_request(audio_file) ==
    [endpoint |-> "whisper", audio |-> audio_file]

\* (variant: failures wrapped like those of the other OpenAI methods)
OpenAI_transcribe_audio_outcome_wrapped(resp) ==
    IF resp.kind = "HTTPError"
    THEN Raise("Exception", <<"Whisper API error: ", resp.detail>>)
    ELSE IF Len(resp.json) = 0
    THEN Raise("Exception", <<"Whisper API error: ", "Expecting value">>)
    ELSE Ok(dict_get(resp.json[1], "text", <<>>))
OpenAI_transcribe_audio_outcome(resp) ==
    IF resp.kind = "HTTPError"
    THEN Raise(resp.detail, <<resp.detail>>)
    ELSE IF Len(resp.json) = 0
    THEN Raise("JSONDecodeError", <<"Expecting value">>)
    ELSE Ok(dict_get(resp.json[1], "text", <<>>))

\* ------------------------------------- dispatch on self.provider (adapter)
generate_text_request(adapter, messages, temperature, max_tokens) ==
    IF adapter = "LocalAIProvider"
    THEN Local_generate_text_request(messages, temperature, max_tokens)
    ELSE OpenAI_generate_text_request(messages, temperature, max_tokens)

generate_text_responses(adapter) ==
    IF adapter = "LocalAIProvider" THEN OllamaResponses ELSE OpenAIChatResponses

generate_text_outcome(adapter, resp) ==
    IF adapter = "LocalAIProvider"
    THEN Local_generate_text_outcome(resp)
    ELSE OpenAI_generate_text_outcome(resp)

generate_speech_request(adapter, text, voice) ==
    IF adapter = "LocalAIProvider"
    THEN Local_generate_speech_request(text, voice)
    ELSE OpenAI_generate_speech_request(text, voice)

generate_speech_responses(adapter, request) ==
    IF adapter = "LocalAIProvider"
    THEN CoquiResponses(request)
    ELSE OpenAISpeechResponses

generate_speech_outcome(adapter, resp) ==
    IF adapter = "LocalAIProvider"
    THEN Local_generate_speech_outcome(resp)
    ELSE OpenAI_generate_speech_outcome(resp)

transcribe_audio_request(adapter, audio_file) ==
    IF adapter = "LocalAIProvider"
    THEN Local_transcribe_audio_request(audio_file)
    ELSE OpenAI_transcribe_audio_request(audio_file)

transcribe_audio_outcome(adapter, resp) ==
    IF adapter = "LocalAIProvider"
    THEN Local_transcribe_audio_outcome(resp)
    ELSE OpenAI_transcribe_audio_outcome(resp)

\* ------------------------------------------------------ age_adaptive_ai
\* class AgeGroup
KIDS == "kids"
TEENS == "teens"
YOUNG_ADULT == "young_adult"
ADULT == "adult"
MIDDLE_AGE == "middle_age"
SENIOR == "senior"

\* get_age_group(age)
\* (variant: the first range written 5 <= age < 12)
get_age_group_exclusive(a) ==
    IF 5 <= a /\ a < 12 THEN KIDS
    ELSE IF 13 <= a /\ a <= 17 THEN TEENS
    ELSE IF 18 <= a /\ a <= 24 THEN YOUNG_ADULT
    ELSE IF 25 <= a /\ a <= 44 THEN ADULT
    ELSE IF 45 <= a /\ a <= 60 THEN MIDDLE_AGE
    ELSE SENIOR
\* (variant: the first range written age <= 12, with no lower end)
get_age_group_no_lower_end(a) ==
    IF a <= 12 THEN KIDS
    ELSE IF 13 <= a /\ a <= 17 THEN TEENS
    ELSE IF 18 <= a /\ a <= 24 THEN YOUNG_ADULT
    ELSE IF 25 <= a /\ a <= 44 THEN ADULT
    ELSE IF 45 <= a /\ a <= 60 THEN MIDDLE_AGE
    ELSE SENIOR
get_age_group(a) ==
    IF 5 <= a /\ a <= 12 THEN KIDS
    ELSE IF 13 <= a /\ a <= 17 THEN TEENS
    ELSE IF 18 <= a /\ a <= 24 THEN YOUNG_ADULT
    ELSE IF 25 <= a /\ a <= 44 THEN ADULT
    ELSE IF 45 <= a /\ a <= 60 THEN MIDDLE_AGE
    ELSE SENIOR

\* the personalities dict of get_ai_personality (the emoji of the example
\* sentences are left out)
personalities ==
    (KIDS :> [tone |-> "enthusiastic, encouraging, simple, playful",
              language_level |-> "elementary (ages 5-12)",
              emoji_frequency |-> "high (every sentence)",
              sentence_length |-> "short (5-10 words)",
              vocabulary |-> "simple words only, no jargon",
              examples |-> <<"Wow! You love art! That's so cool!",
                             "Great choice! Let's find fun drawing classes for you!">>])
    @@ (TEENS :> [tone |-> "casual, relatable, hype, trendy",
                  language_level |-> "high school (ages 13-17)",
                  emoji_frequency |-> "medium-high",
                  sentence_length |-> "medium (10-15 words)",
                  vocabulary |-> "appropriate slang, no cringe",
                  references |-> "current trends (respectfully)",
                  examples |-> <<"Yo! Content creation? That's it! Let's get you started.",
                                 "Bet! I found some sick courses for you to check out">>])
    @@ (YOUNG_ADULT :> [tone |-> "professional yet friendly, direct",
                        language_level |-> "college/professional",
                        emoji_frequency |-> "low (sparingly)",
                        sentence_length |-> "medium-long (15-20 words)",
                        vocabulary |-> "professional, industry terms okay",
                        focus |-> "outcomes, ROI, career impact",
                        examples |-> <<"Got it! UI Design with a focus on career transition. Let's build you a roadmap.">>])
    @@ (ADULT :> [tone |-> "professional, consultative, efficient",
                  language_level |-> "professional/executive",
                  emoji_frequency |-> "minimal",
                  sentence_length |-> "medium-long",
                  vocabulary |-> "professional, business terminology",
                  focus |-> "ROI, efficiency, credentials, results",
                  examples |-> <<"Understood. Let's create a pathway to your promotion goal.">>])
    @@ (MIDDLE_AGE :> [tone |-> "respectful, empowering, thoughtful",
                       language_level |-> "professional, mature",
                       emoji_frequency |-> "none to minimal",
                       sentence_length |-> "medium",
                       vocabulary |-> "professional, mature",
                       focus |-> "purpose, legacy, impact, fulfillment",
                       examples |-> <<"Your 25 years of experience would be incredibly valuable to aspiring professionals.">>])
    @@ (SENIOR :> [tone |-> "patient, warm, respectful, supportive",
                   language_level |-> "clear, simple (not condescending)",
                   emoji_frequency |-> "minimal",
                   sentence_length |-> "short-medium",
                   vocabulary |-> "clear, familiar terms",
                   pace |-> "slow, deliberate",
                   focus |-> "community, enjoyment, support, ease of use",
                   examples |-> <<"That's wonderful! Art classes can be very rewarding. Let me find some beginner-friendly options for you.">>])

\* AgeAdaptiveAIService.get_ai_personality(age_group)
\* (variant: the default record whatever the group)
get_ai_personality_default(group) == personalities[YOUNG_ADULT]
get_ai_personality(group) ==
    dict_get(personalities, group, personalities[YOUNG_ADULT])

\* generate_age_appropriate_response, lines 226-255: the f-string bound to
\* system_prompt, as the pieces of text it puts one after the other; the
\* names user_message and conversation_history are in scope there
\* (variant: the user message written into the prompt)
system_prompt_of_echoing(group, user_message, conversation_history) ==
    <<"USER AGE GROUP: ", group, "\n", "User said: ">> \o user_message
rendered_examples(examples) ==
    join(<<"\n">>, [i \in 1..Len(examples) |-> <<"- ", examples[i]>>])
system_prompt_of(group, user_message, conversation_history) ==
    LET p == get_ai_personality(group) IN
    <<"\n", "You are Sooshi, the AI assistant for Soosh learning platform.", "\n",
      "\n", "USER AGE GROUP: ", group, "\n",
      "\n", "PERSONALITY GUIDELINES:", "\n",
      "- Tone: ", p.tone, "\n",
      "- Language level: ", p.language_level, "\n",
      "- Emoji frequency: ", p.emoji_frequency, "\n",
      "- Sentence length: ", dict_get(p, "sentence_length", "medium"), "\n",
      "- Vocabulary: ", p.vocabulary, "\n", "\n">>
    \o (IF "focus" \in DOMAIN p THEN <<"Focus: ", p.focus>> ELSE <<"">>)
    \o <<"\n", "\n", "EXAMPLES OF YOUR STYLE:", "\n">>
    \o rendered_examples(p.examples)
    \o <<"\n", "\n", "IMPORTANT RULES:", "\n",
         "1. Be age-appropriate and respectful", "\n",
         "2. For kids: Use simple words, be encouraging, add fun emojis", "\n",
         "3. For teens: Be relatable, use appropriate slang, be hype", "\n",
         "4. For young adults: Be professional but friendly, focus on outcomes", "\n",
         "5. For adults: Be efficient, consultative, ROI-focused", "\n",
         "6. For middle age: Be respectful, emphasize purpose and impact", "\n",
         "7. For seniors: Be patient, clear, supportive", "\n",
         "\n", "Respond to the user's message in this style.", "\n">>

\* generate_age_appropriate_response, lines 257-259
age_appropriate_messages(system_prompt, conversation_history, user_message) ==
    <<[role |-> "system", content |-> system_prompt]>>
        \o conversation_history
        \o <<[role |-> "user", content |-> user_message]>>

\* self.client.chat.completions.create(...) of AgeAdaptiveAIService, whose
\* client is AsyncOpenAI(api_key=settings.OPENAI_API_KEY)
age_appropriate_request(messages) ==
    [endpoint |-> "openai/chat.completions", model |-> "settings.OPENAI_MODEL",
     messages |-> messages, temperature |-> "0.7", max_tokens |-> 200]

\* response.choices[0].message.content; nothing wraps the SDK's exception
age_appropriate_outcome(resp) ==
    IF resp.kind = "SdkError"
    THEN Raise(resp.detail, <<resp.detail>>)
    ELSE IF Len(resp.choices) = 0
    THEN Raise("IndexError", <<"list index out of range">>)
    ELSE Ok(resp.choices[1].content)

\* ------------------------------------------------ structured extraction
\* what the model can write as its message content: text that is not JSON,
\* a JSON object with the keys asked for, a JSON object with other keys, a
\* JSON array, or no content at all (null)
ProfileKeys ==
    {"passions", "skills", "goals", "time_commitment", "learning_style", "motivation"}
AnalysisKeys ==
    {"interests", "skills", "goals", "suggested_user_type", "confidence_score"}
JsonObject(keys) == [type |-> "object", value |-> [k \in keys |-> "v"]]
JsonArray == [type |-> "array", value |-> EmptyDict]
Content(raw, json) == [null |-> FALSE, raw |-> raw, json |-> json]
NullContent == [null |-> TRUE, raw |-> "", json |-> <<>>]
ModelOutputs ==
    {Content("Sure! Here is the profile you asked for.", <<>>),
     Content("", <<>>),
     Content("{...profile...}", <<JsonObject(ProfileKeys)>>),
     Content("{...analysis...}", <<JsonObject(AnalysisKeys)>>),
     Content("{\"answer\": \"v\"}", <<JsonObject({"answer"})>>),
     Content("[\"Art\"]", <<JsonArray>>),
     NullContent}

\* json.loads
json_loads(content) ==
    IF content.null
    THEN Raise("TypeError", <<"the JSON object must be str, bytes or bytearray, not NoneType">>)
    ELSE IF Len(content.json) = 0
    THEN Raise("JSONDecodeError", <<"Expecting value">>)
    ELSE Ok(content.json[1])

\* extract_profile_data, lines 299-310
extract_profile_messages(group, conversation_history) ==
    conversation_history
        \o <<[role |-> "system", content |-> <<"extraction_prompt for ", group>>]>>
extract_profile_request(messages) ==
    [endpoint |-> "openai/chat.completions", model |-> "settings.OPENAI_MODEL",
     messages |-> messages, response_format |-> "json_object", temperature |-> "0.3"]
ExtractionResponses ==
    SdkErrors \cup {[kind |-> "ok", choices |-> <<>>]}
        \cup {[kind |-> "ok", choices |-> <<[content |-> c]>>] : c \in ModelOutputs}

\* extract_profile_data, lines 303-312: the await, json.loads and the return
extract_profile_outcome(resp) ==
    IF resp.kind = "SdkError"
    THEN Raise(resp.detail, <<resp.detail>>)
    ELSE IF Len(resp.choices) = 0
    THEN Raise("IndexError", <<"list index out of range">>)
    ELSE json_loads(resp.choices[1].content)

\* voice_profiling, lines 264-284: parsing of the chat reply
DefaultAnalysis ==
    [interests |-> "[learning, growth]", skills |-> "[]",
     goals |-> "[career development]", suggested_user_type |-> "beginner",
     confidence_score |-> "0.5"]
VoiceProfilingResponse(analysis) ==
    [extracted_interests |-> dict_get(analysis, "interests", "[]"),
     extracted_skills |-> dict_get(analysis, "skills", "[]"),
     extracted_goals |-> dict_get(analysis, "goals", "[]"),
     suggested_user_type |-> dict_get(analysis, "suggested_user_type", "beginner"),
     confidence_score |-> dict_get(analysis, "confidence_score", "0.5")]
voice_profiling_outcome(ai_response) ==
    LET parsed == json_loads(ai_response) IN
    IF ~parsed.ok /\ parsed.exc.type = "JSONDecodeError"
    THEN Ok(VoiceProfilingResponse(DefaultAnalysis))
    ELSE IF ~parsed.ok
    THEN parsed
    ELSE IF parsed.value.type # "object"
    THEN Raise("AttributeError", <<"'list' object has no attribute 'get'">>)
    ELSE Ok(VoiceProfilingResponse(parsed.value.value))

\* ------------------------------------------- filter_opportunities_by_age
\* the age_filters dict, and the default of age_filters.get
age_filters ==
    (KIDS :> [difficulty |-> <<"beginner">>,
              content_rating |-> <<"all_ages", "kids">>,
              max_duration |-> 30])
    @@ (TEENS :> [difficulty |-> <<"beginner", "intermediate">>,
                  content_rating |-> <<"all_ages", "teen">>,
                  max_duration |-> 60])
    @@ (YOUNG_ADULT :> [difficulty |-> <<"all">>, content_rating |-> <<"all">>])
DefaultFilters == [difficulty |-> <<"all">>]

\* x in a list
In(x, list) == \E i \in 1..Len(list) : list[i] = x

\* the opportunity dicts drawn: difficulty and duration_minutes may be
\* absent, content_rating is given
Difficulties == {"beginner", "intermediate", "all"}
Durations == {30, 61}
Ratings == {"all_ages", "mature"}
Opportunities ==
    {("content_rating" :> c) @@ d @@ m :
        c \in Ratings,
        d \in {EmptyDict} \cup {("difficulty" :> x) : x \in Difficulties},
        m \in {EmptyDict} \cup {("duration_minutes" :> x) : x \in Durations}}
OpportunityLists == SeqsUpTo(Opportunities, MaxOpportunities)

\* the two tests of the loop body (lines 342-349): TRUE when the item is
\* skipped by `continue`
skipped(opp, filters) ==
    \/ /\ "difficulty" \in DOMAIN filters
       /\ Len(filters.difficulty) > 0
       /\ ~("difficulty" \in DOMAIN opp /\ In(opp.difficulty, filters.difficulty))
    \/ /\ "max_duration" \in DOMAIN filters
       /\ filters.max_duration # 0
       /\ dict_get(opp, "duration_minutes", 0) > filters.max_duration

\* AgeAdaptiveAIService.filter_opportunities_by_age
\* (variant: the first item kept is left out of the result)
filter_opportunities_by_age_less_one(opps, group) ==
    LET filters == dict_get(age_filters, group, DefaultFilters)
        filtered == SelectSeq(opps, LAMBDA opp : ~skipped(opp, filters))
    IN  IF Len(filtered) = 0 THEN filtered ELSE Tail(filtered)
filter_opportunities_by_age(opps, group) ==
    LET filters == dict_get(age_filters, group, DefaultFilters)
    IN  SelectSeq(opps, LAMBDA opp : ~skipped(opp, filters))

\* AgeAdaptiveAIService.get_parental_consent_requirements
get_parental_consent_requirements(group) ==
    IF group = KIDS
    THEN [required |-> TRUE, level |-> "full",
          features_restricted |-> <<"payments", "direct_messaging",
                                    "external_links", "profile_public">>,
          message |-> "For safety, we need a parent or guardian to set up and manage your account."]
    ELSE IF group = TEENS
    THEN [required |-> TRUE, level |-> "partial",
          features_restricted |-> <<"payments_over_50", "mentor_sessions_unsupervised">>,
          message |-> "We may need parental consent for some features."]
    ELSE [required |-> FALSE, level |-> "none", features_restricted |-> <<>>]

\* ------------------------------------------------------------------ state
VARIABLES
    PROVIDER,               \* ai_config.PROVIDER
    provider,               \* UnifiedAIService.provider, the adapter variant
    op,                     \* the operation the caller invoked
    pc,                     \* "idle", the adapter method awaited, "returned", "raised"
    audio_bytes, user_message, conversation_history, system_prompt,
    return_audio, text, voice,          \* the caller's arguments
    messages,               \* the list built by chat / passed to generate_text
    user_text, ai_text,     \* locals of voice_conversation
    returned,               \* <<>> or <<the value returned to the caller>>
    error,                  \* <<>> or <<the exception raised to the caller>>
    calls,                  \* adapter methods invoked, in order, with arguments
    requests,               \* requests sent to the backends, in order
    responses,              \* backend replies received, in order
    http_response,          \* <<>> or <<what the /voice endpoint answers>>
    age, age_group,         \* arguments of the age-adaptive lookups
    personality,            \* <<>> or <<the record get_ai_personality returned>>
    opportunities,          \* the list given to filter_opportunities_by_age
    tasks,                  \* concurrent requests: request -> its arguments and progress
    frames                  \* concurrent requests: frame -> the locals of one call

args == <<audio_bytes, user_message, conversation_history, system_prompt,
          return_audio, text, voice>>
locals == <<messages, user_text, ai_text>>
ages == <<age, age_group, personality, opportunities>>
conc == <<tasks, frames>>
single == <<provider, op, pc, args, locals, returned, error,
            calls, requests, responses, http_response, ages>>
vars == <<PROVIDER, single, conc>>

\* the requests in flight together, and the call frame each one runs in:
\* every call of a coroutine function has a frame of its own
\* (variant: one frame used by all the calls)
Requests == 1..NumRequests
frame_of_shared(r) == 1
frame_of(r) == r

\* a request not yet received, and a frame not yet written
NewTask ==
    [op |-> "none", pc |-> "idle", provider |-> "none",
     audio_bytes |-> Unset, user_message |-> Unset,
     conversation_history |-> NoneList, system_prompt |-> None,
     return_audio |-> FALSE, text |-> Unset, voice |-> None,
     calls |-> <<>>, requests |-> <<>>, responses |-> <<>>,
     returned |-> <<>>, error |-> <<>>, http_response |-> <<>>]
NewFrame == [messages |-> <<>>, user_text |-> Unset, ai_text |-> Unset]

DEFAULT_TEMPERATURE == "0.7"
DEFAULT_MAX_TOKENS == 500

Init ==
    /\ PROVIDER \in {"local", "openai"}
    /\ provider = get_ai_provider(PROVIDER)
    /\ op = "none"
    /\ pc = "idle"
    /\ audio_bytes = Unset /\ user_message = Unset
    /\ conversation_history = NoneList /\ system_prompt = None
    /\ return_audio = FALSE /\ text = Unset /\ voice = None
    /\ messages = <<>> /\ user_text = Unset /\ ai_text = Unset
    /\ returned = <<>> /\ error = <<>>
    /\ calls = <<>> /\ requests = <<>> /\ responses = <<>>
    /\ http_response = <<>>
    /\ age = 0 /\ age_group = "none" /\ personality = <<>>
    /\ opportunities = <<>>
    /\ tasks = [r \in Requests |-> NewTask]
    /\ frames = [r \in Requests |-> NewFrame]

\* one `await client.post(...)` / SDK call: exactly one request goes out
\* (variant: the request is issued a second time)
send_twice(reqs, req) == Append(Append(reqs, req), req)
send(reqs, req) == Append(reqs, req)

\* ------------------------------------------- /voice endpoints (voice_chat.py)
\* the service operation each endpoint serves
EndpointOps == {"speech_to_text", "text_to_speech", "chat", "voice_conversation"}

\* base64.b64encode(...).decode("utf-8")
b64encode(bytes) == [base64 |-> bytes]

\* get_current_provider().value
get_current_provider(config_provider) == config_provider

\* UnifiedAIService.get_current_provider_name
get_current_provider_name(config_provider) ==
    IF is_using_local_provider(config_provider)
    THEN "Local (Ollama + Coqui TTS)"
    ELSE "OpenAI (GPT-4 + TTS)"

\* response_data of POST /voice-conversation
voice_conversation_response_data(res, ra, config_provider) ==
    LET base == [user_text |-> res.user_text, ai_text |-> res.ai_text,
                 provider |-> get_current_provider(config_provider)]
    IN  IF ra /\ "ai_audio" \in DOMAIN res
        THEN [k \in DOMAIN base \cup {"ai_audio"} |->
                 IF k = "ai_audio" THEN b64encode(res.ai_audio) ELSE base[k]]
        ELSE base

\* what the endpoint answers when the service call returned `value`
endpoint_return(operation, value, ra, config_provider) ==
    IF operation = "speech_to_text"
    THEN <<[status |-> 200,
            body |-> [text |-> value, provider |-> get_current_provider(config_provider)]]>>
    ELSE IF operation = "text_to_speech"
    THEN <<[status |-> 200, media_type |-> "audio/wav", body |-> value]>>
    ELSE IF operation = "chat"
    THEN <<[status |-> 200,
            body |-> [response |-> value, provider |-> get_current_provider(config_provider)]]>>
    ELSE IF operation = "voice_conversation"
    THEN <<[status |-> 200,
            body |-> voice_conversation_response_data(value, ra, config_provider)]>>
    ELSE <<>>

\* `except Exception as e: raise HTTPException(status_code=500, detail=str(e))`
\* (variant: errors that are not plain Exceptions answered as 502)
endpoint_except_by_type(operation, exc) ==
    IF operation \in EndpointOps
    THEN <<[status |-> IF exc.type = "Exception" THEN 500 ELSE 502,
            detail |-> exc.message]>>
    ELSE <<>>
endpoint_except(operation, exc) ==
    IF operation \in EndpointOps
    THEN <<[status |-> 500, detail |-> exc.message]>>
    ELSE <<>>

\* the adapter method is entered and suspends on its backend request
Invoke(method, call_args, req) ==
    /\ calls' = Append(calls, [method |-> method, args |-> call_args])
    /\ requests' = send(requests, req)
    /\ pc' = method
    /\ UNCHANGED http_response

Invoke_transcribe_audio(audio_file) ==
    Invoke("transcribe_audio", <<audio_file>>,
           transcribe_audio_request(provider, audio_file))

Invoke_generate_text(msgs, temperature, max_tokens) ==
    Invoke("generate_text", <<msgs, temperature, max_tokens>>,
           generate_text_request(provider, msgs, temperature, max_tokens))

Invoke_generate_speech(t, v) ==
    Invoke("generate_speech", <<t, v>>, generate_speech_request(provider, t, v))

\* the awaited call raised: nothing catches it, the caller gets the exception
\* (variant: the failure is not raised and the call is left waiting)
Propagate_waiting(exc) ==
    /\ pc' = "waiting"
    /\ UNCHANGED <<error, returned, calls, requests, http_response>>
Propagate(exc) ==
    /\ pc' = "raised"
    /\ error' = <<exc>>
    /\ http_response' = endpoint_except(op, exc)
    /\ UNCHANGED <<returned, calls, requests>>

Return(value) ==
    /\ pc' = "returned"
    /\ returned' = <<value>>
    /\ http_response' = endpoint_return(op, value, return_audio, PROVIDER)
    /\ UNCHANGED <<error, calls, requests>>

\* ------------------------------------------------------------- operations
\* UnifiedAIService.voice_conversation up to its first await
voice_conversation ==
    /\ pc = "idle"
    /\ \E a \in AudioInputs, h \in Histories \cup {NoneList},
          sp \in Strs \cup {None}, ra \in BOOLEAN :
        /\ op' = "voice_conversation"
        /\ audio_bytes' = a /\ conversation_history' = h
        /\ system_prompt' = sp /\ return_audio' = ra
        /\ Invoke_transcribe_audio(a)
    /\ UNCHANGED <<PROVIDER, conc, provider, ages, user_message, text, voice, locals,
                   returned, error, responses>>

\* UnifiedAIService.chat up to its await
chat ==
    /\ pc = "idle"
    /\ \E um \in Strs, h \in Histories \cup {NoneList}, sp \in Strs \cup {None} :
        /\ op' = "chat"
        /\ user_message' = um /\ system_prompt' = sp
        /\ conversation_history' = caller_history_after_chat(um, h, sp)
        /\ messages' = chat_messages(um, h, sp)
        /\ Invoke_generate_text(chat_messages(um, h, sp),
                                DEFAULT_TEMPERATURE, MAX_RESPONSE_LENGTH)
    /\ UNCHANGED <<PROVIDER, conc, provider, ages, audio_bytes, return_audio, text, voice,
                   user_text, ai_text, returned, error, responses>>

\* the texts given to text_to_speech: the strings and a blank one
Texts == Strs \cup {<<" ">>}

\* UnifiedAIService.text_to_speech up to its await
text_to_speech ==
    /\ pc = "idle"
    /\ \E t \in Texts, v \in {None, <<"e", "c", "h", "o">>} :
        /\ op' = "text_to_speech"
        /\ text' = t /\ voice' = v
        /\ Invoke_generate_speech(t, v)
    /\ UNCHANGED <<PROVIDER, conc, provider, ages, audio_bytes, user_message,
                   conversation_history, system_prompt, return_audio, locals,
                   returned, error, responses>>

\* UnifiedAIService.speech_to_text up to its await
speech_to_text ==
    /\ pc = "idle"
    /\ \E a \in AudioInputs :
        /\ op' = "speech_to_text"
        /\ audio_bytes' = a
        /\ Invoke_transcribe_audio(a)
    /\ UNCHANGED <<PROVIDER, conc, provider, ages, user_message, conversation_history,
                   system_prompt, return_audio, text, voice, locals,
                   returned, error, responses>>

\* AIProviderInterface.generate_text called on the adapter itself
generate_text ==
    /\ pc = "idle"
    /\ \E msgs \in Histories :
        /\ op' = "generate_text"
        /\ messages' = msgs
        /\ Invoke_generate_text(msgs, DEFAULT_TEMPERATURE, DEFAULT_MAX_TOKENS)
    /\ UNCHANGED <<PROVIDER, conc, provider, ages, args, user_text, ai_text,
                   returned, error, responses>>

\* POST /chat and POST /voice-conversation when the conversation_history
\* form field is a non-empty string that json.loads cannot parse: the
\* service is never called
conversation_history_not_json ==
    /\ pc = "idle"
    /\ \E o \in {"chat", "voice_conversation"} :
        LET exc == [type |-> "JSONDecodeError", message |-> <<"Expecting value">>] IN
        /\ op' = o
        /\ pc' = "rejected"
        /\ error' = <<exc>>
        /\ http_response' = endpoint_except(o, exc)
    /\ UNCHANGED <<PROVIDER, conc, provider, ages, args, locals, returned,
                   calls, requests, responses>>

\* GET /voice/provider: a service is built and its provider reported
get_provider_info ==
    /\ pc = "idle"
    /\ op' = "get_provider_info"
    /\ pc' = "returned"
    /\ returned' = <<get_current_provider_name(PROVIDER)>>
    /\ http_response' =
           <<[status |-> 200,
              body |-> [provider |-> get_current_provider(PROVIDER),
                        provider_name |-> get_current_provider_name(PROVIDER),
                        status |-> "active"]]>>
    /\ provider' = get_ai_provider(PROVIDER)
    /\ UNCHANGED <<PROVIDER, conc, ages, args, locals, error,
                   calls, requests, responses>>

\* `if return_audio:` (voice_conversation, step 3; variant: flag ignored)
synthesis_requested_always(ra) == TRUE
synthesis_requested(ra) == ra

\* the dict voice_conversation builds after step 2 (variant: fields swapped)
result_swapped(ut, at) == [user_text |-> at, ai_text |-> ut]
result(ut, at) == [user_text |-> ut, ai_text |-> at]

\* result["ai_audio"] = ai_audio
with_ai_audio(res, audio) ==
    [k \in DOMAIN res \cup {"ai_audio"} |-> IF k = "ai_audio" THEN audio ELSE res[k]]

\* `await self.chat(...)` / `await self.speech_to_text(...)` /
\* `await self.text_to_speech(...)`: the facade hands the adapter's outcome on
\* (variant: a failure is swallowed and an empty value used instead)
awaited_or_default(outcome) == IF outcome.ok THEN outcome ELSE Ok(<<>>)
awaited(outcome) == outcome

\* the transcription backend answered
transcribe_audio_returns ==
    /\ pc = "transcribe_audio"
    /\ \E resp \in WhisperResponses :
        LET o == awaited(transcribe_audio_outcome(provider, resp)) IN
        /\ responses' = Append(responses, resp)
        /\ IF ~o.ok
           THEN Propagate(o.exc) /\ UNCHANGED <<locals, conversation_history>>
           ELSE IF op = "speech_to_text"
           THEN Return(o.value) /\ UNCHANGED <<locals, conversation_history>>
           ELSE \* voice_conversation: step 1 done, step 2 enters chat
                /\ user_text' = o.value
                /\ conversation_history' =
                       caller_history_after_chat(o.value, conversation_history, system_prompt)
                /\ messages' = chat_messages(o.value, conversation_history, system_prompt)
                /\ Invoke_generate_text(
                       chat_messages(o.value, conversation_history, system_prompt),
                       DEFAULT_TEMPERATURE, MAX_RESPONSE_LENGTH)
                /\ UNCHANGED <<ai_text, returned, error>>
    /\ UNCHANGED <<PROVIDER, conc, provider, ages, op, audio_bytes, user_message,
                   system_prompt, return_audio, text, voice>>

\* the generation backend answered
generate_text_returns ==
    /\ pc = "generate_text"
    /\ \E resp \in generate_text_responses(provider) :
        LET o == awaited(generate_text_outcome(provider, resp)) IN
        /\ responses' = Append(responses, resp)
        /\ IF ~o.ok
           THEN Propagate(o.exc) /\ UNCHANGED locals
           ELSE IF op \in {"chat", "generate_text"}
           THEN Return(o.value) /\ UNCHANGED locals
           ELSE \* voice_conversation: step 2 done, result built, step 3
                /\ ai_text' = o.value
                /\ UNCHANGED <<messages, user_text>>
                /\ IF synthesis_requested(return_audio)
                   THEN /\ Invoke_generate_speech(o.value, None)
                        /\ UNCHANGED <<returned, error>>
                   ELSE Return(result(user_text, o.value))
    /\ UNCHANGED <<PROVIDER, conc, provider, ages, op, args>>

\* the synthesis backend answered
generate_speech_returns ==
    /\ pc = "generate_speech"
    /\ \E resp \in generate_speech_responses(provider, requests[Len(requests)]) :
        LET o == awaited(generate_speech_outcome(provider, resp)) IN
        /\ responses' = Append(responses, resp)
        /\ IF ~o.ok
           THEN Propagate(o.exc)
           ELSE IF op = "text_to_speech"
           THEN Return(o.value)
           ELSE Return(with_ai_audio(result(user_text, ai_text), o.value))
    /\ UNCHANGED <<PROVIDER, conc, provider, ages, op, args, locals>>

\* get_age_group called with an integer age
Ages == (0 - AgesBelowZero)..MaxAge
get_age_group_returns ==
    /\ pc = "idle"
    /\ \E a \in Ages :
        /\ age' = a
        /\ age_group' = get_age_group(a)
        /\ returned' = <<get_age_group(a)>>
    /\ op' = "get_age_group"
    /\ pc' = "returned"
    /\ UNCHANGED <<PROVIDER, conc, provider, args, locals, error, calls, requests,
                   responses, http_response, personality, opportunities>>

\* get_ai_personality called with a group name, one of the table or not
GroupNames == DOMAIN personalities \cup {"toddler"}
get_ai_personality_returns ==
    /\ pc = "idle"
    /\ \E g \in GroupNames :
        /\ age_group' = g
        /\ personality' = <<get_ai_personality(g)>>
        /\ returned' = <<get_ai_personality(g)>>
    /\ op' = "get_ai_personality"
    /\ pc' = "returned"
    /\ UNCHANGED <<PROVIDER, conc, provider, args, locals, error, calls, requests,
                   responses, http_response, age, opportunities>>

\* get_ai_personality called with the group get_age_group returned
get_ai_personality_of_age ==
    /\ pc = "returned" /\ op = "get_age_group"
    /\ personality' = <<get_ai_personality(age_group)>>
    /\ returned' = <<get_ai_personality(age_group)>>
    /\ op' = "get_ai_personality_of_age"
    /\ UNCHANGED <<PROVIDER, conc, provider, pc, args, locals, error, calls, requests,
                   responses, http_response, age, age_group, opportunities>>

Next ==
    \/ get_age_group_returns
    \/ get_ai_personality_returns
    \/ get_ai_personality_of_age
    \/ voice_conversation
    \/ chat
    \/ text_to_speech
    \/ speech_to_text
    \/ generate_text
    \/ transcribe_audio_returns
    \/ generate_text_returns
    \/ generate_speech_returns
    \/ conversation_history_not_json
    \/ get_provider_info

Spec == Init /\ [][Next]_vars

\* every request sent to a backend is answered, fails or times out: the
\* httpx clients are built with a timeout (OLLAMA_TIMEOUT, 30 s) and the
\* event loop resumes the coroutine that awaits the reply
SpecLive ==
    /\ Spec
    /\ WF_vars(transcribe_audio_returns)
    /\ WF_vars(generate_text_returns)
    /\ WF_vars(generate_speech_returns)

\* ---------------------------------------------------- concurrent requests
\* Several requests served together on one event loop: each step below is
\* one request's code between two awaits, and the steps of different
\* requests interleave in any order.

\* the backend replies drawn for the concurrent runs: a non-success status,
\* or a well-formed reply carrying a text of at most one character
ShortStrs == SeqsUpTo(Alphabet, 1)
WellFormed(resp) ==
    IF "json" \in DOMAIN resp
    THEN /\ Len(resp.json) = 1
         /\ \E k \in DOMAIN resp.json[1] : resp.json[1][k] \in ShortStrs
    ELSE IF "choices" \in DOMAIN resp
    THEN Len(resp.choices) = 1 /\ resp.choices[1].content \in ShortStrs
    ELSE TRUE
Sampled(replies) ==
    {resp \in replies :
        IF resp.kind = "ok"
        THEN WellFormed(resp)
        ELSE resp.detail \in {"HTTPStatusError", "APIStatusError"}}

\* the adapter method is entered by the request and suspends
Invoked(t, method, call_args, req) ==
    [t EXCEPT !.calls = Append(@, [method |-> method, args |-> call_args]),
              !.requests = send(@, req),
              !.pc = method]

\* the awaited call raised / the service call returned
Propagated(t, exc) ==
    [t EXCEPT !.pc = "raised", !.error = <<exc>>,
              !.http_response = endpoint_except(t.op, exc)]
Returned(t, value) ==
    [t EXCEPT !.pc = "returned", !.returned = <<value>>,
              !.http_response = endpoint_return(t.op, value, t.return_audio, PROVIDER)]

\* POST /voice-conversation: the request builds its service and runs
\* UnifiedAIService.voice_conversation up to its first await
voice_conversation_of(r) ==
    /\ tasks[r].pc = "idle"
    /\ \E a \in AudioInputs, ra \in BOOLEAN :
        LET adapter == get_ai_provider(PROVIDER)
            t == [tasks[r] EXCEPT !.op = "voice_conversation", !.provider = adapter,
                                  !.audio_bytes = a, !.return_audio = ra]
        IN  tasks' = [tasks EXCEPT ![r] =
                Invoked(t, "transcribe_audio", <<a>>,
                        transcribe_audio_request(adapter, a))]
    /\ UNCHANGED <<PROVIDER, single, frames>>

\* POST /chat
chat_of(r) ==
    /\ tasks[r].pc = "idle"
    /\ \E um \in ShortStrs :
        LET adapter == get_ai_provider(PROVIDER)
            t == [tasks[r] EXCEPT !.op = "chat", !.provider = adapter,
                                  !.user_message = um]
            msgs == chat_messages(um, t.conversation_history, t.system_prompt)
        IN  /\ frames' = [frames EXCEPT ![frame_of(r)].messages = msgs]
            /\ tasks' = [tasks EXCEPT ![r] =
                   Invoked(t, "generate_text",
                           <<msgs, DEFAULT_TEMPERATURE, MAX_RESPONSE_LENGTH>>,
                           generate_text_request(adapter, msgs, DEFAULT_TEMPERATURE,
                                                 MAX_RESPONSE_LENGTH))]
    /\ UNCHANGED <<PROVIDER, single>>

\* POST /text-to-speech
text_to_speech_of(r) ==
    /\ tasks[r].pc = "idle"
    /\ \E tx \in ShortStrs :
        LET adapter == get_ai_provider(PROVIDER)
            t == [tasks[r] EXCEPT !.op = "text_to_speech", !.provider = adapter,
                                  !.text = tx]
        IN  tasks' = [tasks EXCEPT ![r] =
                Invoked(t, "generate_speech", <<tx, t.voice>>,
                        generate_speech_request(adapter, tx, t.voice))]
    /\ UNCHANGED <<PROVIDER, single, frames>>

\* POST /transcribe
speech_to_text_of(r) ==
    /\ tasks[r].pc = "idle"
    /\ \E a \in AudioInputs :
        LET adapter == get_ai_provider(PROVIDER)
            t == [tasks[r] EXCEPT !.op = "speech_to_text", !.provider = adapter,
                                  !.audio_bytes = a]
        IN  tasks' = [tasks EXCEPT ![r] =
                Invoked(t, "transcribe_audio", <<a>>,
                        transcribe_audio_request(adapter, a))]
    /\ UNCHANGED <<PROVIDER, single, frames>>

\* the transcription backend answered request r
transcribe_audio_returns_to(r) ==
    /\ tasks[r].pc = "transcribe_audio"
    /\ \E resp \in Sampled(WhisperResponses) :
        LET t == [tasks[r] EXCEPT !.responses = Append(@, resp)]
            o == awaited(transcribe_audio_outcome(t.provider, resp))
            msgs == chat_messages(o.value, t.conversation_history, t.system_prompt)
        IN  IF ~o.ok
            THEN /\ tasks' = [tasks EXCEPT ![r] = Propagated(t, o.exc)]
                 /\ UNCHANGED frames
            ELSE IF t.op = "speech_to_text"
            THEN /\ tasks' = [tasks EXCEPT ![r] = Returned(t, o.value)]
                 /\ UNCHANGED frames
            ELSE /\ frames' = [frames EXCEPT ![frame_of(r)].user_text = o.value,
                                             ![frame_of(r)].messages = msgs]
                 /\ tasks' = [tasks EXCEPT ![r] =
                        Invoked(t, "generate_text",
                                <<msgs, DEFAULT_TEMPERATURE, MAX_RESPONSE_LENGTH>>,
                                generate_text_request(t.provider, msgs,
                                    DEFAULT_TEMPERATURE, MAX_RESPONSE_LENGTH))]
    /\ UNCHANGED <<PROVIDER, single>>

\* the generation backend answered request r
generate_text_returns_to(r) ==
    /\ tasks[r].pc = "generate_text"
    /\ \E resp \in Sampled(generate_text_responses(tasks[r].provider)) :
        LET t == [tasks[r] EXCEPT !.responses = Append(@, resp)]
            o == awaited(generate_text_outcome(t.provider, resp))
            f == frames[frame_of(r)]
        IN  IF ~o.ok
            THEN /\ tasks' = [tasks EXCEPT ![r] = Propagated(t, o.exc)]
                 /\ UNCHANGED frames
            ELSE IF t.op = "chat"
            THEN /\ tasks' = [tasks EXCEPT ![r] = Returned(t, o.value)]
                 /\ UNCHANGED frames
            ELSE /\ frames' = [frames EXCEPT ![frame_of(r)].ai_text = o.value]
                 /\ tasks' = [tasks EXCEPT ![r] =
                        IF synthesis_requested(t.return_audio)
                        THEN Invoked(t, "generate_speech", <<o.value, None>>,
                                     generate_speech_request(t.provider, o.value, None))
                        ELSE Returned(t, result(f.user_text, o.value))]
    /\ UNCHANGED <<PROVIDER, single>>

\* the synthesis backend answered request r
generate_speech_returns_to(r) ==
    /\ tasks[r].pc = "generate_speech"
    /\ \E resp \in Sampled(generate_speech_responses(tasks[r].provider,
                               tasks[r].requests[Len(tasks[r].requests)])) :
        LET t == [tasks[r] EXCEPT !.responses = Append(@, resp)]
            o == awaited(generate_speech_outcome(t.provider, resp))
            f == frames[frame_of(r)]
        IN  tasks' = [tasks EXCEPT ![r] =
                IF ~o.ok
                THEN Propagated(t, o.exc)
                ELSE IF t.op = "text_to_speech"
                THEN Returned(t, o.value)
                ELSE Returned(t, with_ai_audio(result(f.user_text, f.ai_text), o.value))]
    /\ UNCHANGED <<PROVIDER, single, frames>>

NextConc ==
    \E r \in Requests :
        \/ voice_conversation_of(r)
        \/ chat_of(r)
        \/ text_to_speech_of(r)
        \/ speech_to_text_of(r)
        \/ transcribe_audio_returns_to(r)
        \/ generate_text_returns_to(r)
        \/ generate_speech_returns_to(r)

SpecConc == Init /\ [][NextConc]_vars

\* ------------------------------------------------- AgeAdaptiveAIService
\* a call of the age-adaptive service starts from nothing but its
\* arguments: the service object keeps no state between calls
Callable == pc = "idle"

\* the histories given to the age-adaptive calls
AdaptiveHistories == SeqsUpTo({[role |-> "user", content |-> <<"a">>]}, 1)

\* generate_age_appropriate_response up to its await
generate_age_appropriate_response ==
    /\ Callable
    /\ \E g \in GroupNames, um \in Strs, h \in AdaptiveHistories :
        LET sp == system_prompt_of(g, um, h)
            msgs == age_appropriate_messages(sp, h, um)
        IN  /\ age_group' = g /\ user_message' = um /\ conversation_history' = h
            /\ personality' = <<get_ai_personality(g)>>
            /\ system_prompt' = sp
            /\ messages' = msgs
            /\ calls' = <<[method |-> "client.chat.completions.create",
                           args |-> <<msgs>>]>>
            /\ requests' = send(<<>>, age_appropriate_request(msgs))
    /\ op' = "generate_age_appropriate_response"
    /\ pc' = "chat.completions"
    /\ returned' = <<>> /\ error' = <<>> /\ responses' = <<>>
    /\ UNCHANGED <<PROVIDER, conc, provider, audio_bytes, return_audio, text, voice,
                   user_text, ai_text, http_response, age, opportunities>>

\* the chat completion answered
generate_age_appropriate_response_returns ==
    /\ pc = "chat.completions" /\ op = "generate_age_appropriate_response"
    /\ \E resp \in OpenAIChatResponses :
        LET o == age_appropriate_outcome(resp) IN
        /\ responses' = Append(responses, resp)
        /\ IF o.ok
           THEN pc' = "returned" /\ returned' = <<o.value>> /\ UNCHANGED error
           ELSE pc' = "raised" /\ error' = <<o.exc>> /\ UNCHANGED returned
    /\ UNCHANGED <<PROVIDER, conc, provider, op, args, locals, calls, requests,
                   http_response, ages>>

\* extract_profile_data up to its await
extract_profile_data ==
    /\ Callable
    /\ \E g \in GroupNames, h \in AdaptiveHistories :
        LET msgs == extract_profile_messages(g, h) IN
        /\ age_group' = g /\ conversation_history' = h
        /\ messages' = msgs
        /\ calls' = <<[method |-> "client.chat.completions.create", args |-> <<msgs>>]>>
        /\ requests' = send(<<>>, extract_profile_request(msgs))
    /\ op' = "extract_profile_data"
    /\ pc' = "chat.completions"
    /\ returned' = <<>> /\ error' = <<>> /\ responses' = <<>>
    /\ UNCHANGED <<PROVIDER, conc, provider, audio_bytes, user_message, system_prompt,
                   return_audio, text, voice, user_text, ai_text, http_response,
                   age, personality, opportunities>>

\* the chat completion answered and its content is parsed
extract_profile_data_returns ==
    /\ pc = "chat.completions" /\ op = "extract_profile_data"
    /\ \E resp \in ExtractionResponses :
        LET o == extract_profile_outcome(resp) IN
        /\ responses' = Append(responses, resp)
        /\ IF o.ok
           THEN pc' = "returned" /\ returned' = <<o.value>> /\ UNCHANGED error
           ELSE pc' = "raised" /\ error' = <<o.exc>> /\ UNCHANGED returned
    /\ UNCHANGED <<PROVIDER, conc, provider, op, args, locals, calls, requests,
                   http_response, ages>>

\* POST /voice-profiling from the point where ai_service.chat returned
\* ai_response
voice_profiling ==
    /\ Callable
    /\ \E ai_response \in ModelOutputs :
        LET o == voice_profiling_outcome(ai_response) IN
        /\ responses' = <<[kind |-> "ok", choices |-> <<[content |-> ai_response]>>]>>
        /\ IF o.ok
           THEN pc' = "returned" /\ returned' = <<o.value>> /\ error' = <<>>
           ELSE pc' = "raised" /\ error' = <<o.exc>> /\ returned' = <<>>
    /\ op' = "voice_profiling"
    /\ calls' = <<>> /\ requests' = <<>>
    /\ UNCHANGED <<PROVIDER, conc, provider, args, locals, http_response, ages>>

\* a synchronous call of the age-adaptive service that returns `value`
Answers(operation, value) ==
    /\ op' = operation
    /\ pc' = "returned"
    /\ returned' = <<value>>
    /\ error' = <<>>
    /\ calls' = <<>> /\ requests' = <<>> /\ responses' = <<>>

\* filter_opportunities_by_age called with a list and a group name
filter_opportunities ==
    /\ Callable
    /\ \E opps \in OpportunityLists, g \in GroupNames :
        /\ opportunities' = opps
        /\ age_group' = g
        /\ Answers("filter_opportunities_by_age", filter_opportunities_by_age(opps, g))
    /\ UNCHANGED <<PROVIDER, conc, provider, args, locals, http_response,
                   age, personality>>

\* filter_opportunities_by_age called with its own result and the same group
filter_opportunities_again ==
    /\ op = "filter_opportunities_by_age" /\ pc = "returned"
    /\ opportunities' = returned[1]
    /\ Answers("filter_opportunities_by_age_again",
               filter_opportunities_by_age(returned[1], age_group))
    /\ UNCHANGED <<PROVIDER, conc, provider, args, locals, http_response,
                   age, age_group, personality>>

\* get_parental_consent_requirements called with the group of an age
parental_consent_for_age ==
    /\ Callable
    /\ \E a \in Ages :
        /\ age' = a
        /\ age_group' = get_age_group(a)
        /\ Answers("get_parental_consent_requirements",
                   get_parental_consent_requirements(get_age_group(a)))
    /\ UNCHANGED <<PROVIDER, conc, provider, args, locals, http_response,
                   personality, opportunities>>

NextAdaptive ==
    \/ filter_opportunities
    \/ filter_opportunities_again
    \/ parental_consent_for_age
    \/ generate_age_appropriate_response
    \/ generate_age_appropriate_response_returns
    \/ extract_profile_data
    \/ extract_profile_data_returns
    \/ voice_profiling

SpecAdaptive == Init /\ [][NextAdaptive]_vars

\* ===================================================== properties (C1..C10)
Method(i) == calls[i].method
Methods == [i \in 1..Len(calls) |-> calls[i].method]

\* the outcome the adapter computes from the i-th backend reply
StageOutcome(i) ==
    IF Method(i) = "transcribe_audio" THEN transcribe_audio_outcome(provider, responses[i])
    ELSE IF Method(i) = "generate_text" THEN generate_text_outcome(provider, responses[i])
    ELSE generate_speech_outcome(provider, responses[i])

\* C1: every successful run of voice_conversation has called transcription
\* once, then generation once, then synthesis once if return_audio is true
\* and not at all if it is false; at every moment of a run the stages
\* started are an initial part of that order and each was started only
\* after the one before it had answered.
C1_StagesOnceInOrder ==
    op = "voice_conversation" =>
        LET stages == <<"transcribe_audio", "generate_text", "generate_speech">>
        IN  /\ Len(calls) <= 3
            /\ \A i \in 1..Len(calls) : Method(i) = stages[i]
            /\ Len(responses) + 1 >= Len(calls)
            /\ pc = "returned" =>
                   Len(calls) = IF return_audio THEN 3 ELSE 2

C1_Witness ==
    /\ op = "voice_conversation" /\ pc = "returned"
    /\ ~return_audio /\ Len(calls) = 2

\* C2: when a stage of voice_conversation fails, that stage is the last one
\* started, the call ends raised with the error of that stage, and nothing
\* is returned to the caller.
C2_FailureAborts ==
    op = "voice_conversation" =>
        \A i \in 1..Len(responses) :
            ~StageOutcome(i).ok =>
                /\ i = Len(calls)
                /\ pc = "raised"
                /\ error = <<StageOutcome(i).exc>>
                /\ returned = <<>>

C2_Witness ==
    /\ op = "voice_conversation" /\ pc = "raised" /\ return_audio
    /\ Methods = <<"transcribe_audio", "generate_text">>

\* C3: when transcription yields the empty string, generation is invoked
\* exactly once and the last message it receives is a user message with
\* empty content.
C3_EmptyTranscriptionProceeds ==
    (op = "voice_conversation" /\ user_text = <<>>) =>
        /\ Cardinality({i \in 1..Len(calls) : Method(i) = "generate_text"}) = 1
        /\ Len(calls) >= 2 /\ Method(2) = "generate_text"
        /\ LET m == calls[2].args[1]
           IN  /\ Len(m) > 0
               /\ m[Len(m)] = [role |-> "user", content |-> <<>>]

C3_Witness ==
    /\ op = "voice_conversation" /\ user_text = <<>>
    /\ pc = "generate_text"

\* the shape [system?] + history + [user] of the list chat hands to the
\* adapter, where `given` says whether a system message is expected
ChatShape(m, given) ==
    LET h == IF conversation_history = NoneList THEN <<>> ELSE conversation_history
        um == IF op = "chat" THEN user_message ELSE user_text
        off == IF given THEN 1 ELSE 0
    IN  /\ Len(m) = off + Len(h) + 1
        /\ given => m[1] = [role |-> "system", content |-> system_prompt]
        /\ \A j \in 1..Len(h) : m[off + j] = h[j]
        /\ m[Len(m)] = [role |-> "user", content |-> um]

\* C4 as stated: the list handed to the adapter is [system?] + history +
\* [user], with the system message present iff a system prompt was given
\* (system_prompt is not None).
C4_SystemIffGiven ==
    op \in {"chat", "voice_conversation"} =>
        \A i \in 1..Len(calls) :
            Method(i) = "generate_text" =>
                ChatShape(calls[i].args[1], system_prompt # None)

\* C4 amended: the list handed to the adapter is [system?] + history +
\* [user], with the system message present iff a non-empty system prompt
\* was given.
C4_SystemIffNonEmpty ==
    op \in {"chat", "voice_conversation"} =>
        \A i \in 1..Len(calls) :
            Method(i) = "generate_text" =>
                ChatShape(calls[i].args[1],
                          system_prompt # None /\ Len(system_prompt) > 0)

C4_Witness ==
    /\ op = "chat" /\ pc = "generate_text"
    /\ system_prompt = <<"a">>
    /\ conversation_history # NoneList /\ Len(conversation_history) = 2
    /\ conversation_history[1] # conversation_history[2]

\* C5: the dict a successful voice_conversation returns has user_text equal
\* to what transcription yielded, ai_text equal to what generation yielded,
\* and the key ai_audio, holding what synthesis yielded, iff return_audio.
C5_ResultFields ==
    (op = "voice_conversation" /\ pc = "returned") =>
        LET r == returned[1]
        IN  /\ r.user_text = StageOutcome(1).value
            /\ r.ai_text = StageOutcome(2).value
            /\ ("ai_audio" \in DOMAIN r) <=> return_audio
            /\ return_audio => r.ai_audio = StageOutcome(3).value
            /\ DOMAIN r \subseteq {"user_text", "ai_text", "ai_audio"}

C5_Witness ==
    /\ op = "voice_conversation" /\ pc = "returned" /\ return_audio
    /\ user_text # ai_text
    /\ returned[1].ai_audio = <<"w">>

\* C6: every failure an adapter method ends in is the generic provider
\* error: an Exception whose message is the backend name followed by the
\* underlying message.
BackendNames ==
    {"Ollama API error: ", "Coqui TTS error: ", "OpenAI API error: ", "OpenAI TTS error: "}

C6_FailuresAreProviderErrors ==
    pc = "raised" =>
        /\ error[1].type = "Exception"
        /\ Len(error[1].message) = 2
        /\ error[1].message[1] \in BackendNames

\* C7: no adapter invocation sends more than one backend request, and after
\* a failed reply nothing is sent again.
C7_OneRequestPerInvocation ==
    /\ Len(requests) <= Len(calls)
    /\ pc = "raised" => Len(requests) = Len(responses)

C7_Witness ==
    /\ pc = "raised"
    /\ Len(calls) = 2 /\ Len(requests) = 2
    /\ responses[2].kind \in {"HTTPError", "SdkError"}

\* C8: every prompt sent to the local generation backend ends with the cue
\* "Assistant:", the cue stands on a line of its own after all messages and
\* is not doubled; for an empty message list the prompt is the cue alone.
EndsWith(p, suffix) ==
    /\ Len(p) >= Len(suffix)
    /\ SubSeq(p, Len(p) - Len(suffix) + 1, Len(p)) = suffix

C8_TrailingCue ==
    \A i \in 1..Len(requests) :
        requests[i].endpoint = "ollama/api/generate" =>
            LET p == requests[i].prompt
                n == Len(p)
            IN  /\ EndsWith(p, AssistantCue)
                /\ n > Len(AssistantCue) => p[n - Len(AssistantCue)] = "\n"
                /\ ~EndsWith(p, AssistantCue \o NL \o AssistantCue)
                /\ Len(calls[i].args[1]) = 0 => p = AssistantCue

C8_Witness ==
    /\ provider = "LocalAIProvider" /\ op = "generate_text"
    /\ Len(messages) = 0
    /\ Len(requests) = 1 /\ requests[1].prompt = AssistantCue

\* the segment of one message: its role label and its content as text; a
\* message without role counts as user, one with another role has no segment
Segment(msg) ==
    LET given == IF "content" \in DOMAIN msg THEN msg.content ELSE <<>>
        content == IF given = None THEN <<"N", "o", "n", "e">> ELSE given
        role == IF "role" \in DOMAIN msg THEN msg.role ELSE "user"
    IN  CASE role = "system" -> <<SystemLabel \o content>>
          [] role = "user" -> <<UserLabel \o content>>
          [] role = "assistant" -> <<AssistantLabel \o content>>
          [] OTHER -> <<>>

\* the segments in order, each followed by `sep`, then the cue
RECURSIVE Flattened(_, _)
Flattened(msgs, sep) ==
    IF Len(msgs) = 0 THEN AssistantCue
    ELSE LET seg == Segment(Head(msgs))
         IN  (IF Len(seg) = 0 THEN <<>> ELSE seg[1] \o sep) \o Flattened(Tail(msgs), sep)

\* C9 as stated: the prompt sent to the local generation backend is the
\* role-annotated segments in message order, each followed by exactly one
\* newline, then the cue "Assistant:".
C9_OneNewline ==
    \A i \in 1..Len(requests) :
        requests[i].endpoint = "ollama/api/generate" =>
            requests[i].prompt = Flattened(calls[i].args[1], NL)

\* C9 amended: the prompt sent to the local generation backend is the
\* role-annotated segments of the messages whose role is system, user or
\* assistant, in message order, each followed by exactly two newlines, then
\* the cue "Assistant:".
C9_TwoNewlines ==
    \A i \in 1..Len(requests) :
        requests[i].endpoint = "ollama/api/generate" =>
            requests[i].prompt = Flattened(calls[i].args[1], NL \o NL)

C9_Witness ==
    /\ provider = "LocalAIProvider" /\ op = "chat" /\ pc = "generate_text"
    /\ system_prompt = <<"a">>
    /\ conversation_history = <<[role |-> "user", content |-> <<"a">>],
                                [role |-> "assistant", content |-> <<"a">>]>>
    /\ Len(requests) = 1

\* C10: the message array sent to the cloud chat-completion backend is the
\* list the adapter was handed, which for chat and voice_conversation is
\* the list chat built: same messages, same order.
C10_CloudMessagesUnchanged ==
    \A i \in 1..Len(requests) :
        requests[i].endpoint = "openai/chat.completions" =>
            /\ requests[i].messages = calls[i].args[1]
            /\ requests[i].messages = messages

C10_Witness ==
    /\ provider = "OpenAIProvider" /\ op = "chat" /\ pc = "generate_text"
    /\ Len(requests) = 1 /\ Len(requests[1].messages) = 3
    /\ system_prompt = <<"a">>
    /\ requests[1].messages[1] = [role |-> "system", content |-> <<"a">>]


\* ==================================================== properties (C11..C20)
\* C11: transcription is the same under both adapters: for the audio of
\* every transcription call the two adapters build the same request to the
\* same endpoint, the request sent is that one, and for the reply received
\* the two adapters end in the same outcome.
C11_TranscriptionSameUnderBothAdapters ==
    \A i \in 1..Len(calls) :
        Method(i) = "transcribe_audio" =>
            /\ requests[i] = Local_transcribe_audio_request(calls[i].args[1])
            /\ requests[i] = OpenAI_transcribe_audio_request(calls[i].args[1])
            /\ i <= Len(responses) =>
                   /\ Local_transcribe_audio_outcome(responses[i])
                          = OpenAI_transcribe_audio_outcome(responses[i])
                   /\ StageOutcome(i) = Local_transcribe_audio_outcome(responses[i])

C11_Witness ==
    /\ provider = "OpenAIProvider" /\ op = "speech_to_text" /\ pc = "raised"
    /\ responses[1].kind = "HTTPError"

\* the transcription backend reports no speech: a JSON reply whose text
\* field is absent, empty or null
NoSpeech(resp) ==
    /\ resp.kind = "ok" /\ Len(resp.json) = 1
    /\ \/ "text" \notin DOMAIN resp.json[1]
       \/ resp.json[1].text = <<>>
       \/ resp.json[1].text = None

\* C13: whenever speech_to_text returns, the value is a string (never
\* None), and it is the empty string when the backend reported no speech.
C13_TranscriptionIsString ==
    (op = "speech_to_text" /\ pc = "returned") =>
        /\ returned[1] # None
        /\ NoSpeech(responses[1]) => returned[1] = <<>>

\* a reply with a non-success status (raise_for_status / SDK status error)
NonSuccessStatus(resp) ==
    /\ resp.kind \in {"HTTPError", "SdkError"}
    /\ resp.detail \in {"HTTPStatusError", "APIStatusError"}

\* a successful generation reply that lacks the expected field: a local
\* reply without "response", a cloud reply whose first choice has no content
MissingField(i) ==
    /\ Method(i) = "generate_text"
    /\ responses[i].kind = "ok"
    /\ IF provider = "LocalAIProvider"
       THEN Len(responses[i].json) = 1 /\ "response" \notin DOMAIN responses[i].json[1]
       ELSE Len(responses[i].choices) = 1 /\ responses[i].choices[1].content = None

ProviderConsistent ==
    /\ provider = "LocalAIProvider" <=> PROVIDER = "local"
    /\ provider = "OpenAIProvider" <=> PROVIDER = "openai"
    /\ (op = "get_provider_info" /\ pc = "returned") =>
           /\ http_response[1].body.provider = PROVIDER
           /\ returned[1] = http_response[1].body.provider_name
           /\ returned[1] = "Local (Ollama + Coqui TTS)" <=> provider = "LocalAIProvider"
           /\ returned[1] = "OpenAI (GPT-4 + TTS)" <=> provider = "OpenAIProvider"

\* C15: no step changes the configured provider kind, and in every state
\* the adapter variant held by the service is the variant of that kind,
\* which is also the kind get_current_provider_name and GET /voice/provider
\* report.
C15_ProviderFixedAndConsistent ==
    /\ []ProviderConsistent
    /\ [][PROVIDER' = PROVIDER /\ provider' = provider]_vars

C15_Witness ==
    /\ op = "get_provider_info" /\ pc = "returned"
    /\ PROVIDER = "openai" /\ provider = "OpenAIProvider"
    /\ http_response[1].body.provider_name = "OpenAI (GPT-4 + TTS)"

\* C17: every failure while serving a /voice endpoint is answered with
\* status 500, whichever stage or backend failed and whatever the exception;
\* a success answer is given only when the service call returned.
C17_FailuresAre500 ==
    op \in EndpointOps =>
        /\ Len(error) = 1 =>
               /\ Len(http_response) = 1
               /\ http_response[1].status = 500
               /\ http_response[1].detail = error[1].message
        /\ (\E i \in 1..Len(responses) : ~StageOutcome(i).ok) =>
               (Len(http_response) = 1 /\ http_response[1].status = 500)
        /\ (Len(http_response) = 1 /\ http_response[1].status = 200) =>
               (pc = "returned" /\ Len(error) = 0)
        /\ pc \in {"returned", "raised", "rejected"} => Len(http_response) = 1

C17_Witness ==
    /\ op = "voice_conversation" /\ pc = "raised" /\ Len(calls) = 3
    /\ error[1].type = "Exception"
    /\ http_response[1].status = 500


\* C12: text_to_speech called with an empty text never returns audio bytes,
\* under either provider, and voice_conversation asked for audio fails at
\* the synthesis stage when the reply text is empty.
C12_EmptyTextFails ==
    /\ (op = "text_to_speech" /\ text = <<>>) => pc # "returned"
    /\ (op = "voice_conversation" /\ return_audio /\ ai_text = <<>>) =>
           pc # "returned"


\* the ranges as the age table states them; the last one has no upper end
Ranges ==
    <<[lo |-> 5, hi |-> <<12>>, group |-> "kids"],
      [lo |-> 13, hi |-> <<17>>, group |-> "teens"],
      [lo |-> 18, hi |-> <<24>>, group |-> "young_adult"],
      [lo |-> 25, hi |-> <<44>>, group |-> "adult"],
      [lo |-> 45, hi |-> <<60>>, group |-> "middle_age"],
      [lo |-> 61, hi |-> <<>>, group |-> "senior"]>>
InRange(a, i) ==
    Ranges[i].lo <= a /\ (Ranges[i].hi = <<>> \/ a <= Ranges[i].hi[1])
RangesOf(a) == {i \in 1..Len(Ranges) : InRange(a, i)}
AgeLookedUp == op \in {"get_age_group", "get_ai_personality_of_age"}

\* C18: every age of 5 or more lies in exactly one of the ranges 5-12,
\* 13-17, 18-24, 25-44, 45-60, 61 and above, and get_age_group returns the
\* group of that range.
C18_RangesPartitionAges ==
    (AgeLookedUp /\ age >= 5) =>
        /\ Cardinality(RangesOf(age)) = 1
        /\ \A i \in RangesOf(age) : age_group = Ranges[i].group

C18_Witness ==
    /\ op = "get_age_group" /\ pc = "returned"
    /\ age = 12 /\ age_group = "kids" /\ returned = <<"kids">>

\* C19: every age below 5, zero and the negative ages included, lies in
\* none of the ranges and get_age_group returns for it the group of its
\* final else branch, senior, the same for all such ages.
C19_BelowFiveIsSenior ==
    (AgeLookedUp /\ age < 5) =>
        /\ RangesOf(age) = {}
        /\ age_group = SENIOR
        /\ \A a \in Ages : a < 5 => get_age_group(a) = age_group

C19_Witness ==
    /\ op = "get_age_group" /\ pc = "returned"
    /\ age = 0 - 1 /\ age_group = "senior"

\* the group whose record the lookup for an age has to return: the group
\* of the age's range, or senior for an age in no range
GroupOfAge(a) ==
    IF RangesOf(a) = {} THEN "senior"
    ELSE Ranges[CHOOSE i \in RangesOf(a) : TRUE].group

\* C20: for every age, get_ai_personality applied to get_age_group(age)
\* returns the table record of that age's own group, found under the group's
\* own key and not by the unknown-group default; all ages of the same group
\* receive that same record.
C20_PersonaOfOwnGroup ==
    op = "get_ai_personality_of_age" =>
        /\ Len(personality) = 1
        /\ age_group \in DOMAIN personalities
        /\ age_group = GroupOfAge(age)
        /\ personality[1] = personalities[GroupOfAge(age)]
        /\ \A a \in Ages :
               GroupOfAge(a) = GroupOfAge(age) =>
                   get_ai_personality(get_age_group(a)) = personality[1]

C20_Witness ==
    /\ op = "get_ai_personality_of_age" /\ pc = "returned"
    /\ age = 61 /\ age_group = "senior"
    /\ personality[1].pace = "slow, deliberate"


\* what one request does when it runs alone: the stages of its operation,
\* and its progress and outcome after the replies `resps`, computed from the
\* request's own arguments and replies only
StagesOf(t) ==
    IF t.op = "speech_to_text" THEN <<"transcribe_audio">>
    ELSE IF t.op = "chat" THEN <<"generate_text">>
    ELSE IF t.op = "text_to_speech" THEN <<"generate_speech">>
    ELSE IF t.return_audio
    THEN <<"transcribe_audio", "generate_text", "generate_speech">>
    ELSE <<"transcribe_audio", "generate_text">>
OutcomeOf(t, i) ==
    LET m == StagesOf(t)[i] IN
    IF m = "transcribe_audio" THEN transcribe_audio_outcome(t.provider, t.responses[i])
    ELSE IF m = "generate_text" THEN generate_text_outcome(t.provider, t.responses[i])
    ELSE generate_speech_outcome(t.provider, t.responses[i])
Pending(m) == [pc |-> m, returned |-> <<>>, error |-> <<>>]
Failed(exc) == [pc |-> "raised", returned |-> <<>>, error |-> <<exc>>]
Done(v) == [pc |-> "returned", returned |-> <<v>>, error |-> <<>>]
Alone(t) ==
    LET n == Len(t.responses)
        stages == StagesOf(t)
    IN  IF \E i \in 1..n : ~OutcomeOf(t, i).ok
        THEN Failed(OutcomeOf(t, n).exc)
        ELSE IF n < Len(stages)
        THEN Pending(stages[n + 1])
        ELSE IF t.op # "voice_conversation"
        THEN Done(OutcomeOf(t, 1).value)
        ELSE IF t.return_audio
        THEN Done([user_text |-> OutcomeOf(t, 1).value,
                   ai_text |-> OutcomeOf(t, 2).value,
                   ai_audio |-> OutcomeOf(t, 3).value])
        ELSE Done([user_text |-> OutcomeOf(t, 1).value,
                   ai_text |-> OutcomeOf(t, 2).value])

\* the request sent for the i-th stage, from the request's own data
RequestAlone(t, i) ==
    LET m == StagesOf(t)[i] IN
    IF m = "transcribe_audio"
    THEN transcribe_audio_request(t.provider, t.audio_bytes)
    ELSE IF m = "generate_text"
    THEN generate_text_request(t.provider,
             chat_messages(IF t.op = "chat" THEN t.user_message
                           ELSE OutcomeOf(t, 1).value,
                           t.conversation_history, t.system_prompt),
             DEFAULT_TEMPERATURE, MAX_RESPONSE_LENGTH)
    ELSE generate_speech_request(t.provider,
             IF t.op = "text_to_speech" THEN t.text ELSE OutcomeOf(t, 2).value,
             t.voice)

Isolated(r) ==
    LET t == tasks[r] IN
    t.op # "none" =>
        /\ t.provider = get_ai_provider(PROVIDER)
        /\ Len(t.calls) <= Len(StagesOf(t))
        /\ \A i \in 1..Len(t.calls) :
               /\ t.calls[i].method = StagesOf(t)[i]
               /\ t.requests[i] = RequestAlone(t, i)
        /\ Len(t.requests) = Len(t.calls)
        /\ Len(t.responses) \in {Len(t.calls) - 1, Len(t.calls)}
        /\ t.pc = Alone(t).pc
        /\ t.returned = Alone(t).returned
        /\ t.error = Alone(t).error

\* C16: however the steps of the concurrent requests interleave, each
\* request starts its stages in its operation's own order, sends requests
\* built from its own data, and ends as it would when run alone on its own
\* arguments and its own backend replies; every step writes the progress
\* and the locals of one request only, and the configuration is not written.
C16_RequestsIsolated ==
    /\ [](\A r \in Requests : Isolated(r))
    /\ [][/\ PROVIDER' = PROVIDER
          /\ \E r \in Requests :
                \A q \in Requests \ {r} :
                    tasks'[q] = tasks[q] /\ frames'[q] = frames[q]]_vars

\* two voice conversations in flight together with different transcripts,
\* the first one finished after the second one's transcript arrived
C16_Witness ==
    /\ tasks[1].op = "voice_conversation" /\ tasks[2].op = "voice_conversation"
    /\ tasks[1].pc = "returned" /\ tasks[2].pc = "generate_text"
    /\ tasks[1].returned[1].user_text = <<"a">>
    /\ frames[2].user_text = <<>>
    /\ frames[1].user_text = <<"a">>


\* ==================================================== properties (C21..C30)
\* C21: the system prompt rendered in generate_age_appropriate_response is
\* the same for every user message and every conversation history given
\* with the same age group, also when other calls came before; it is the
\* content of the first message sent.
C21_SystemPromptPure ==
    op = "generate_age_appropriate_response" =>
        /\ \A um \in Strs, h \in AdaptiveHistories :
               system_prompt_of(age_group, um, h) = system_prompt
        /\ requests[1].messages[1] = [role |-> "system", content |-> system_prompt]

C21_Witness ==
    /\ op = "generate_age_appropriate_response" /\ pc = "returned"
    /\ age_group = "kids" /\ user_message = <<"a">> /\ Len(conversation_history) = 1
    /\ \E i \in 1..Len(system_prompt) :
           system_prompt[i] = "enthusiastic, encouraging, simple, playful"

\* C22: when the configured provider is local, generating an age-adapted
\* response sends no request to the cloud chat-completion endpoint.
C22_NoCloudCallWhenLocal ==
    (op = "generate_age_appropriate_response" /\ PROVIDER = "local") =>
        \A i \in 1..Len(requests) : requests[i].endpoint # "openai/chat.completions"


\* the model's content is a JSON object with the keys the operation asked for
ExpectedSchema(content) ==
    /\ ~content.null
    /\ Len(content.json) = 1
    /\ content.json[1].type = "object"
    /\ DOMAIN content.json[1].value =
           (IF op = "extract_profile_data" THEN ProfileKeys ELSE AnalysisKeys)

\* C23: when the model's output is not a JSON object of the expected
\* schema, structured profile extraction returns (a default profile) and
\* raises nothing.
C23_MalformedOutputNeverRaises ==
    (/\ op \in {"extract_profile_data", "voice_profiling"}
     /\ Len(responses) = 1
     /\ responses[1].kind = "ok"
     /\ Len(responses[1].choices) = 1
     /\ ~ExpectedSchema(responses[1].choices[1].content))
        => (pc = "returned" /\ Len(error) = 0)


\* C24: filtering an already filtered list again with the same age group
\* gives the same list, the same items in the same order.
C24_FilterIdempotent ==
    /\ op = "filter_opportunities_by_age" =>
           /\ returned[1] = filter_opportunities_by_age(opportunities, age_group)
           /\ filter_opportunities_by_age(returned[1], age_group) = returned[1]
    /\ op = "filter_opportunities_by_age_again" => returned[1] = opportunities

C24_Witness ==
    /\ op = "filter_opportunities_by_age_again" /\ age_group = "teens"
    /\ Len(opportunities) = 2 /\ Len(returned[1]) = 2
    /\ opportunities[1].difficulty = "intermediate"
    /\ opportunities[2].difficulty = "beginner"

\* C25: for the groups without a configured predicate (adult, middle_age,
\* senior, and young_adult, which restricts neither difficulty nor
\* duration) the filter drops nothing: the result is the input list.
C25_OpenFilterKeepsAll ==
    (/\ op = "filter_opportunities_by_age"
     /\ age_group \in {"young_adult", "adult", "middle_age", "senior"})
        => returned[1] = opportunities

\* C27: the consent policy of the group of an age requires parental consent
\* (required, level partial or full) for every age below 18, and does not
\* require it for the ages from 18 on.
C27_MinorsNeedConsent ==
    op = "get_parental_consent_requirements" =>
        IF age < 18
        THEN returned[1].required /\ returned[1].level \in {"partial", "full"}
        ELSE ~returned[1].required

\* C28: for kids and teens, every item the filter returns has a
\* content_rating of the group's configured content_rating list.
C28_ReturnedRatingsAllowed ==
    (op = "filter_opportunities_by_age" /\ age_group \in {"kids", "teens"}) =>
        \A i \in 1..Len(returned[1]) :
            In(returned[1][i].content_rating, age_filters[age_group].content_rating)


\* the number of segments of a flattened prompt: every segment ends with a
\* newline and is followed by the newline of the join
Segments(p) ==
    Cardinality({i \in 1..(Len(p) - 1) : p[i] = "\n" /\ p[i + 1] = "\n"})

\* C26: the prompt sent to the local generation backend holds one segment
\* for each message of the list, whatever the message's role, also when the
\* role is absent or is none of system, user and assistant.
C26_OneSegmentPerMessage ==
    \A i \in 1..Len(requests) :
        requests[i].endpoint = "ollama/api/generate" =>
            Segments(requests[i].prompt) = Len(calls[i].args[1])


\* the history as the messages handed to generation show it was passed in:
\* after the optional system message and before the final user message
HistoryShown(msgs) ==
    LET first == IF truthy(system_prompt) THEN 2 ELSE 1
    IN  SubSeq(msgs, first, Len(msgs) - 1)

\* C29: chat and voice_conversation leave the caller's conversation_history
\* as it was passed in, the same messages in the same order: no step of a
\* call changes it, whether the call goes on, returns or fails, and it
\* still is the history that was put into the message list.
C29_HistoryUnchanged ==
    /\ [](op \in {"chat", "voice_conversation"} =>
            \A i \in 1..Len(calls) :
                calls[i].method = "generate_text" =>
                    HistoryShown(calls[i].args[1]) =
                        (IF truthy_list(conversation_history)
                         THEN conversation_history ELSE <<>>))
    /\ [][(op \in {"chat", "voice_conversation"})
              => (conversation_history' = conversation_history)]_vars

C29_Witness ==
    /\ op = "voice_conversation" /\ pc = "raised" /\ Len(calls) = 2
    /\ conversation_history = <<[role |-> "assistant", content |-> <<"a">>],
                                [role |-> "user"]>>


\* C30: every voice_conversation call that has started eventually ends,
\* with a result or with an error, when every backend request is eventually
\* answered (by a reply, a failure or a timeout).
C30_VoiceConversationEnds ==
    (op = "voice_conversation") ~> (pc \in {"returned", "raised", "rejected"})

C30_Witness ==
    /\ op = "voice_conversation" /\ pc = "raised" /\ Len(calls) = 2
    /\ responses[2] = [kind |-> "HTTPError", detail |-> "ReadTimeout"]
    /\ error[1].message = <<"Ollama API error: ", "ReadTimeout">>

====
